---- MODULE Spec2Model ----
(***************************************************************************)
(* carrier: the command-line front-end of the Xenon toolchain.             *)
(*                                                                         *)
(* One CLI invocation (src/main.rs) is one step of the state machine: it   *)
(* reads the project directory, possibly writes to it, possibly spawns one *)
(* child process and waits for it, and ends in Ok or Err.  The state is    *)
(* the filesystem below the working directory plus a record of what the    *)
(* last invocation did (its arguments, the filesystem it started from, the *)
(* files it wrote, the process it spawned, what it printed, its result).   *)
(*                                                                         *)
(* Paths and file contents are strings.  The TOML document in xn.toml is   *)
(* held at the granularity of its key/value lines.  Filesystem calls fail  *)
(* for the causes the modelled state determines: a missing file, a missing *)
(* parent directory, a path component that is a regular file, content that *)
(* is not UTF-8.  The outcome of the child process (spawn failure, exit    *)
(* code, death by signal) and the order in which a directory walk yields   *)
(* its entries are inputs of the step.                                     *)
(***************************************************************************)
EXTENDS Naturals, Sequences, FiniteSets, TLC

VARIABLES fs, last

vars == <<fs, last>>

(***************************************************************************)
(* Bounds of the model.                                                    *)
(***************************************************************************)
\* Largest exit code a child process returns (real codes run to 255).
MaxExit == 1
\* Longest list of positional arguments given to 'run' and 'vm'.
MaxArgs == 1

(***************************************************************************)
(* Option<T>: None is the empty sequence, Some(x) the one-element one.      *)
(***************************************************************************)
None == <<>>
Some(x) == <<x>>

(***************************************************************************)
(* The filesystem: a map from the paths below some directory to what is    *)
(* there: nothing, a directory or a regular file.  A handler sees the      *)
(* paths below its working directory, which exists while it runs.          *)
(***************************************************************************)
\* The project directory, as 'init' names it from the directory above.
ProjectDir == "demo"

\* The paths the program can touch, relative to the project directory.
RelPaths ==
    {"xn.toml", "src", "src/main.xn", "src/util", "src/util/lib.xn",
     "src/notes.txt", "out", "out/output.xn"}

\* The same, seen from the directory above.
FsPaths == {ProjectDir} \cup {ProjectDir \o "/" \o p : p \in RelPaths}

NoEntry == [kind |-> "none"]
DirEntry == [kind |-> "dir"]
FileEntry(d) == [kind |-> "file", utf8 |-> TRUE, data |-> d]
BinaryEntry == [kind |-> "file", utf8 |-> FALSE, data |-> ""]

\* q names a directory strictly above p.
IsAncestor(q, p) ==
    /\ Len(q) < Len(p)
    /\ SubSeq(p, 1, Len(q) + 1) = q \o "/"

\* The relation tabulated once over the modelled paths, and the paths of the
\* project seen from above.
Ancestors == [p \in RelPaths \cup FsPaths |-> {q \in RelPaths \cup FsPaths : IsAncestor(q, p)}]
Below == [d \in {ProjectDir} |-> [p \in RelPaths |-> d \o "/" \o p]]

IsFile(f, p) == p \in DOMAIN f /\ f[p].kind = "file"
IsDir(f, p) == p \in DOMAIN f /\ f[p].kind = "dir"

\* The filesystem as a process started in directory cwd sees it through
\* relative paths, and the whole filesystem once that process has left g.
chdir(f, cwd) == [p \in RelPaths |-> f[Below[cwd][p]]]
unchdir(f, cwd, g) ==
    [q \in DOMAIN f |->
        IF cwd \in Ancestors[q]
        THEN g[CHOOSE p \in RelPaths : Below[cwd][p] = q]
        ELSE f[q]]

\* std::fs::create_dir_all: the directory and every missing ancestor; an
\* error when a component of the path is a regular file.
create_dir_all(f, p) ==
    LET chain == {q \in DOMAIN f : q = p \/ q \in Ancestors[p]}
    IN  IF p \notin DOMAIN f \/ \E q \in chain : f[q].kind = "file"
        THEN [ok |-> FALSE, fs |-> f]
        ELSE [ok |-> TRUE,
              fs |-> [q \in DOMAIN f |-> IF q \in chain THEN DirEntry ELSE f[q]]]

\* std::fs::write: creates or truncates the file; an error when the parent
\* directory is missing or the path is a directory.
fs_write(f, p, data) ==
    LET parents == IF p \in DOMAIN f THEN Ancestors[p] \cap DOMAIN f ELSE {}
    IN  IF \/ p \notin DOMAIN f
           \/ f[p].kind = "dir"
           \/ \E q \in parents : f[q].kind # "dir"
        THEN [ok |-> FALSE, fs |-> f]
        ELSE [ok |-> TRUE, fs |-> [f EXCEPT ![p] = FileEntry(data)]]

\* std::fs::read_to_string: an error when the file is missing, is a directory
\* or does not hold UTF-8.
read_to_string(f, path) ==
    IF IsFile(f, path) /\ f[path].utf8
    THEN [ok |-> TRUE, data |-> f[path].data]
    ELSE [ok |-> FALSE, data |-> ""]

(***************************************************************************)
(* config.rs                                                               *)
(***************************************************************************)
ConfigKeys == <<"compiler_path", "interpreter_path", "vm_path", "project_name">>

XnConfig(c, i, v, p) ==
    [compiler_path |-> c, interpreter_path |-> i, vm_path |-> v, project_name |-> p]

\* #[derive(Default)]: every field the empty string.
XnConfigDefault == XnConfig("", "", "", "")

\* One 'key = value' line of a TOML document.
TomlLine(k, t, v) == [key |-> k, type |-> t, val |-> v]

\* toml::to_string_pretty on the derived Serialize: one string-valued line
\* per field, in the order the struct declares them.
toml_to_string_pretty(config) ==
    [n \in 1..Len(ConfigKeys) |-> TomlLine(ConfigKeys[n], "string", config[ConfigKeys[n]])]

\* toml::from_str on the derived Deserialize: the document must be valid TOML
\* (no malformed line, no key defined twice) and give every field of the
\* struct once, as a string; keys that are no field are skipped.
toml_from_str(doc) ==
    LET At(k) == {n \in 1..Len(doc) : doc[n].key = k}
        Field(k) == doc[CHOOSE n \in At(k) : TRUE].val
        syntax == /\ \A n \in 1..Len(doc) : doc[n].type # "invalid"
                  /\ \A m, n \in 1..Len(doc) : doc[m].key = doc[n].key => m = n
        typed == \A j \in 1..Len(ConfigKeys) :
                    /\ At(ConfigKeys[j]) # {}
                    /\ \A n \in At(ConfigKeys[j]) : doc[n].type = "string"
    IN  IF syntax /\ typed
        THEN [ok |-> TRUE,
              config |-> XnConfig(Field("compiler_path"), Field("interpreter_path"),
                                  Field("vm_path"), Field("project_name"))]
        ELSE [ok |-> FALSE, config |-> XnConfigDefault]

\* load_config with a bug: a file that cannot be read or decoded gives the
\* default configuration instead of an error.
load_config_lenient(f, path) ==
    LET contents == read_to_string(f, path)
        parsed == toml_from_str(contents.data)
    IN  IF contents.ok /\ parsed.ok
        THEN [ok |-> TRUE, error |-> "", config |-> parsed.config]
        ELSE [ok |-> TRUE, error |-> "", config |-> XnConfigDefault]

load_config(f, path) ==
    LET contents == read_to_string(f, path)
        parsed == toml_from_str(contents.data)
    IN  IF ~contents.ok
        THEN [ok |-> FALSE, error |-> "Failed to read config file: " \o path,
              config |-> XnConfigDefault]
        ELSE IF ~parsed.ok
        THEN [ok |-> FALSE, error |-> "Failed to parse toml from: " \o path,
              config |-> XnConfigDefault]
        ELSE [ok |-> TRUE, error |-> "", config |-> parsed.config]

save_config(f, config, path) ==
    LET serialized == toml_to_string_pretty(config)
        written == fs_write(f, path, serialized)
    IN  IF ~written.ok
        THEN [ok |-> FALSE, error |-> "Failed to write config file: " \o path, fs |-> f]
        ELSE [ok |-> TRUE, error |-> "", fs |-> written.fs]

(***************************************************************************)
(* What one handler did: its result, the filesystem it leaves, the lines   *)
(* it printed, the commands it ran (each with what became of the child),   *)
(* whether it walked a directory, and the files it wrote.                  *)
(***************************************************************************)
Outcome(st, e, f, out, cmds, w, wr) ==
    [status |-> st, error |-> e, fs |-> f, stdout |-> out,
     commands |-> cmds, walked |-> w, writes |-> wr]

\* What can become of std::process::Command::spawn and Child::wait.
ProcOutcomes ==
    {[kind |-> "spawn_error", code |-> 0], [kind |-> "signaled", code |-> 0]}
        \cup {[kind |-> "exited", code |-> c] : c \in 0..MaxExit}

\* Command::new(program).arg(..).spawn()?.wait()?: spawn fails with an error;
\* wait returns the ExitStatus, whatever it is, as Ok, and the handlers drop it.
spawn_wait(program, args, proc) ==
    [ok |-> proc.kind # "spawn_error",
     command |-> [program |-> program, args |-> args, result |-> proc]]

(***************************************************************************)
(* commands.rs: the directory walk and the merge                           *)
(***************************************************************************)
RECURSIVE LastIndex(_, _, _)
LastIndex(s, ch, n) ==
    IF n = 0 THEN 0
    ELSE IF SubSeq(s, n, n) = ch THEN n
    ELSE LastIndex(s, ch, n - 1)

\* Path::extension: what follows the last dot of the file name; none when the
\* name has no dot or only a leading one.
extension(p) ==
    LET name == SubSeq(p, LastIndex(p, "/", Len(p)) + 1, Len(p))
        dot == LastIndex(name, ".", Len(name))
    IN  IF dot <= 1 THEN None ELSE Some(SubSeq(name, dot + 1, Len(name)))

Extensions == [p \in RelPaths |-> extension(p)]

\* The orders in which WalkDir, which sorts nothing, can yield the modelled
\* files: the order of the directory's entries on disk.
WalkOrders ==
    {<<"src/main.xn", "src/notes.txt", "src/util/lib.xn">>,
     <<"src/util/lib.xn", "src/notes.txt", "src/main.xn">>}

\* gather_xn_files with a bug: the extension is not looked at.
gather_any_files(f, dir, order) ==
    LET Collected(p) ==
            /\ p = dir \/ dir \in Ancestors[p]
            /\ IsFile(f, p)
    IN  SelectSeq(order, Collected)

\* An absent root yields one error entry, which the loop skips.
gather_xn_files(f, dir, order) ==
    LET Collected(p) ==
            /\ p = dir \/ dir \in Ancestors[p]
            /\ IsFile(f, p)
            /\ Extensions[p] = Some("xn")
    IN  SelectSeq(order, Collected)

MarkerPrefix == "// Start of file: "

\* merge_files with a bug: no newline pushed after a file's contents.
RECURSIVE merge_files_unterminated(_, _, _)
merge_files_unterminated(f, files, acc) ==
    IF files = <<>> THEN [ok |-> TRUE, data |-> acc]
    ELSE LET file_contents == read_to_string(f, Head(files))
         IN  IF ~file_contents.ok THEN [ok |-> FALSE, data |-> acc]
             ELSE merge_files_unterminated(f, Tail(files),
                      acc \o "// Start of file: " \o Head(files) \o "\n"
                          \o file_contents.data)

\* The loop of concatenate_xn_files over the files left, 'acc' the merged
\* contents so far; a file that cannot be read ends it with an error.
RECURSIVE merge_files(_, _, _)
merge_files(f, files, acc) ==
    IF files = <<>> THEN [ok |-> TRUE, data |-> acc]
    ELSE LET file_contents == read_to_string(f, Head(files))
         IN  IF ~file_contents.ok THEN [ok |-> FALSE, data |-> acc]
             ELSE merge_files(f, Tail(files),
                      acc \o MarkerPrefix \o Head(files) \o "\n"
                          \o file_contents.data \o "\n")

MergedPath == "out/output.xn"
\* (A string of the module cannot hold the backquote of the program's messages:
\* it is written as an apostrophe.)
EmptyInputError == "No .xn files found in 'src/' for build."

\* concatenate_xn_files with a bug: an empty file set is merged like any other.
concatenate_unchecked(f, dir, order) ==
    LET xn_files == gather_xn_files(f, dir, order)
        made == create_dir_all(f, "out")
        merged == merge_files(made.fs, xn_files, "")
        written == fs_write(made.fs, MergedPath, merged.data)
    IN  IF ~made.ok \/ ~merged.ok \/ ~written.ok
        THEN [ok |-> FALSE, error |-> "io", fs |-> f, path |-> "", writes |-> {}]
        ELSE [ok |-> TRUE, error |-> "", fs |-> written.fs, path |-> MergedPath,
              writes |-> {MergedPath}]

concatenate_xn_files(f, dir, order) ==
    LET xn_files == gather_xn_files(f, dir, order)
        made == create_dir_all(f, "out")
        merged == merge_files(made.fs, xn_files, "")
        written == fs_write(made.fs, MergedPath, merged.data)
    IN  IF xn_files = <<>>
        THEN [ok |-> FALSE, error |-> EmptyInputError, fs |-> f, path |-> "", writes |-> {}]
        ELSE IF ~made.ok
        THEN [ok |-> FALSE, error |-> "io: create_dir_all", fs |-> f, path |-> "", writes |-> {}]
        ELSE IF ~merged.ok
        THEN [ok |-> FALSE, error |-> "io: read_to_string", fs |-> made.fs, path |-> "",
              writes |-> {}]
        ELSE IF ~written.ok
        THEN [ok |-> FALSE, error |-> "io: write", fs |-> made.fs, path |-> "", writes |-> {}]
        ELSE [ok |-> TRUE, error |-> "", fs |-> written.fs, path |-> MergedPath,
              writes |-> {MergedPath}]

(***************************************************************************)
(* commands.rs: the five handlers                                          *)
(***************************************************************************)
gcd_code ==
    "// Greatest Common Divisor\nfn gcd(a: mut i32, b: mut i32) -> i32\n{\n"
    \o "    let t: mut i32 = 0;\n    \n    while (b != 0) {\n        t = b;\n"
    \o "        b = a % b;\n        a = t;\n    }\n    return a;\n}\n\n"
    \o "fn main() -> i32 {\n    let a: i32 = 270;\n    let b: i32 = 192;\n"
    \o "    return gcd(a, b);\n}\n"

\* default_config with a bug: the VM is given the interpreter's name.
default_config_swapped(name) == XnConfig("xcc", "xin", "xin", name)

\* The configuration handle_init saves.
default_config(name) == XnConfig("xcc", "xin", "xrun", name)

handle_init(f, name) ==
    LET made == create_dir_all(f, name)
        src_dir == name \o "/src"
        made_src == create_dir_all(made.fs, src_dir)
        main_xn_path == src_dir \o "/main.xn"
        sample == fs_write(made_src.fs, main_xn_path, gcd_code)
        config_path == name \o "/xn.toml"
        saved == save_config(sample.fs, default_config(name), config_path)
    IN  IF ~made.ok
        THEN Outcome("err", "io: create_dir_all", f, <<>>, <<>>, FALSE, {})
        ELSE IF ~made_src.ok
        THEN Outcome("err", "io: create_dir_all", made.fs, <<>>, <<>>, FALSE, {})
        ELSE IF ~sample.ok
        THEN Outcome("err", "io: write", made_src.fs, <<>>, <<>>, FALSE, {})
        ELSE IF ~saved.ok
        THEN Outcome("err", saved.error, sample.fs, <<>>, <<>>, FALSE,
                     {main_xn_path})
        ELSE Outcome("ok", "", saved.fs,
                     <<"Initialized a new XN project in '" \o name \o "'">>, <<>>, FALSE,
                     {main_xn_path, config_path})

\* source_to_compile with a bug: src/ is merged whether or not a source is given.
source_always_merged(f, source, order) ==
    LET c == concatenate_xn_files(f, "src", order)
    IN  [ok |-> c.ok, error |-> c.error, fs |-> c.fs, path |-> c.path,
         writes |-> c.writes, walked |-> TRUE]

\* Lines 99-104: the given source, or else the merge of what is under src/.
source_to_compile(f, source, order) ==
    IF source # None
    THEN [ok |-> TRUE, error |-> "", fs |-> f, path |-> source[1], writes |-> {},
          walked |-> FALSE]
    ELSE LET c == concatenate_xn_files(f, "src", order)
         IN  [ok |-> c.ok, error |-> c.error, fs |-> c.fs, path |-> c.path,
              writes |-> c.writes, walked |-> TRUE]

handle_build(f, source, output, order, proc) ==
    LET loaded == load_config(f, "xn.toml")
        config == loaded.config
        made == create_dir_all(f, "out")
        input == source_to_compile(made.fs, source, order)
        child == spawn_wait(config.compiler_path, <<input.path, "-o", output>>, proc)
    IN  IF ~loaded.ok
        THEN Outcome("err", loaded.error, f, <<>>, <<>>, FALSE, {})
        ELSE IF ~made.ok
        THEN Outcome("err", "io: create_dir_all", f, <<>>, <<>>, FALSE, {})
        ELSE IF ~input.ok
        THEN Outcome("err", input.error, input.fs, <<>>, <<>>, input.walked, input.writes)
        ELSE IF ~child.ok
        THEN Outcome("err", "spawn", input.fs, <<>>, <<child.command>>,
                     input.walked, input.writes)
        ELSE Outcome("ok", "", input.fs, <<"Build finished -> " \o output>>,
                     <<child.command>>, input.walked, input.writes)

handle_run(f, files0, entry, order, proc) ==
    LET loaded == load_config(f, "xn.toml")
        config == loaded.config
        files == IF files0 = <<>> THEN gather_xn_files(f, "src", order) ELSE files0
        args == files \o (IF entry # None THEN <<"-e", entry[1]>> ELSE <<>>)
        child == spawn_wait(config.interpreter_path, args, proc)
    IN  IF ~loaded.ok
        THEN Outcome("err", loaded.error, f, <<>>, <<>>, FALSE, {})
        ELSE IF files = <<>>
        THEN Outcome("ok", "", f, <<"No .xn files found to run.">>, <<>>,
                     files0 = <<>>, {})
        ELSE IF ~child.ok
        THEN Outcome("err", "spawn", f, <<>>, <<child.command>>, files0 = <<>>, {})
        ELSE Outcome("ok", "", f, <<>>, <<child.command>>, files0 = <<>>, {})

handle_vm(f, wasm_file, args, proc) ==
    LET loaded == load_config(f, "xn.toml")
        config == loaded.config
        child == spawn_wait(config.vm_path, <<wasm_file>> \o args, proc)
    IN  IF ~loaded.ok
        THEN Outcome("err", loaded.error, f, <<>>, <<>>, FALSE, {})
        ELSE IF ~child.ok
        THEN Outcome("err", "spawn", f, <<>>, <<child.command>>, FALSE, {})
        ELSE Outcome("ok", "", f, <<>>, <<child.command>>, FALSE, {})

IsConfigKey(k) == \E n \in 1..Len(ConfigKeys) : ConfigKeys[n] = k

\* set_key with a bug: the vm_path arm assigns the interpreter's field.
set_key_wrong_field(config, k, v) ==
    IF k = "compiler_path" THEN [config EXCEPT !.compiler_path = v]
    ELSE IF k = "interpreter_path" THEN [config EXCEPT !.interpreter_path = v]
    ELSE IF k = "vm_path" THEN [config EXCEPT !.interpreter_path = v]
    ELSE IF k = "project_name" THEN [config EXCEPT !.project_name = v]
    ELSE config

\* Lines 161-167: the field named k set to v; any other k leaves the
\* configuration as loaded (and prints).
set_key(config, k, v) ==
    IF k = "compiler_path" THEN [config EXCEPT !.compiler_path = v]
    ELSE IF k = "interpreter_path" THEN [config EXCEPT !.interpreter_path = v]
    ELSE IF k = "vm_path" THEN [config EXCEPT !.vm_path = v]
    ELSE IF k = "project_name" THEN [config EXCEPT !.project_name = v]
    ELSE config

\* {:#?} of the derived Debug.
debug_config(config) ==
    "XnConfig {\n    compiler_path: \"" \o config.compiler_path
    \o "\",\n    interpreter_path: \"" \o config.interpreter_path
    \o "\",\n    vm_path: \"" \o config.vm_path
    \o "\",\n    project_name: \"" \o config.project_name \o "\",\n}"

\* Lines 160-170, (Some(k), Some(v)): set, save, report.  An unknown key is
\* reported, and the configuration is saved all the same.
config_set(f, config, k, v) ==
    LET unknown == IF IsConfigKey(k) THEN <<>> ELSE <<"Unknown config key: " \o k>>
        saved == save_config(f, set_key(config, k, v), "xn.toml")
    IN  IF ~saved.ok
        THEN Outcome("err", saved.error, f, unknown, <<>>, FALSE, {})
        ELSE Outcome("ok", "", saved.fs,
                     unknown \o <<"Updated config key '" \o k \o "' to '" \o v \o "'">>,
                     <<>>, FALSE, {"xn.toml"})

\* config_get with a bug: the configuration is saved after the lookup, as it is
\* after an update.
config_get_saving(f, config, k) ==
    LET saved == save_config(f, config, "xn.toml")
    IN  Outcome("ok", "", saved.fs,
                IF IsConfigKey(k) THEN <<k \o " = " \o config[k]>>
                ELSE <<"Unknown config key: " \o k>>,
                <<>>, FALSE, {"xn.toml"})

\* Lines 171-184, (Some(k), None): print the value of the key.
config_get(f, config, k) ==
    IF IsConfigKey(k)
    THEN Outcome("ok", "", f, <<k \o " = " \o config[k]>>, <<>>, FALSE, {})
    ELSE Outcome("ok", "", f, <<"Unknown config key: " \o k>>, <<>>, FALSE, {})

\* Lines 185-187, (None, _): print the configuration.
config_show(f, config) ==
    Outcome("ok", "", f, <<"Current config:\n" \o debug_config(config)>>, <<>>, FALSE, {})

handle_config(f, key, value) ==
    LET loaded == load_config(f, "xn.toml")
    IN  IF ~loaded.ok
        THEN Outcome("err", loaded.error, f, <<>>, <<>>, FALSE, {})
        ELSE IF key # None /\ value # None
        THEN config_set(f, loaded.config, key[1], value[1])
        ELSE IF key # None
        THEN config_get(f, loaded.config, key[1])
        ELSE config_show(f, loaded.config)

(***************************************************************************)
(* The project directories an invocation can start in.                     *)
(***************************************************************************)
\* xn.toml as handle_init leaves it, as a user wrote it by hand (another key
\* order, a key the program does not know), and two files that do not decode:
\* one without vm_path, one whose compiler_path is no string.
HandWritten ==
    <<TomlLine("project_name", "string", "demo"), TomlLine("edition", "integer", "2024"),
      TomlLine("vm_path", "string", "xrun"), TomlLine("interpreter_path", "string", "xin"),
      TomlLine("compiler_path", "string", "xcc")>>

MissingField ==
    <<TomlLine("compiler_path", "string", "xcc"),
      TomlLine("interpreter_path", "string", "xin"),
      TomlLine("project_name", "string", "demo")>>

MistypedField ==
    <<TomlLine("compiler_path", "integer", "1"),
      TomlLine("interpreter_path", "string", "xin"),
      TomlLine("vm_path", "string", "xrun"), TomlLine("project_name", "string", "demo")>>

InitialToml ==
    {NoEntry, FileEntry(toml_to_string_pretty(default_config("demo"))),
     FileEntry(HandWritten), FileEntry(MissingField), FileEntry(MistypedField)}

\* The project directory absent (nothing initialised yet), or present with:
\* src/ absent, or holding notes.txt and any of main.xn and util/lib.xn
\* (readable, or not UTF-8); out/ absent, or holding an earlier merge.
ProjectFs(c) ==
    [q \in FsPaths |->
        CASE q = ProjectDir -> DirEntry
          [] q = ProjectDir \o "/xn.toml" -> c.toml
          [] q = ProjectDir \o "/src" -> IF c.src THEN DirEntry ELSE NoEntry
          [] q = ProjectDir \o "/src/main.xn" -> c.main
          [] q = ProjectDir \o "/src/util" -> IF c.lib = NoEntry THEN NoEntry ELSE DirEntry
          [] q = ProjectDir \o "/src/util/lib.xn" -> c.lib
          [] q = ProjectDir \o "/src/notes.txt" ->
                IF c.src THEN FileEntry("todo") ELSE NoEntry
          [] q = ProjectDir \o "/out" -> IF c.stale THEN DirEntry ELSE NoEntry
          [] q = ProjectDir \o "/out/output.xn" ->
                IF c.stale THEN FileEntry("stale") ELSE NoEntry]

InitialFs ==
    {[q \in FsPaths |-> NoEntry]} \cup
    {ProjectFs(c) :
        c \in {d \in [toml : InitialToml, src : BOOLEAN,
                      main : {NoEntry, FileEntry("fn main() {}")},
                      lib : {NoEntry, FileEntry("fn lib() {}\n"), BinaryEntry},
                      stale : BOOLEAN] :
                  /\ ~d.src => d.main = NoEntry /\ d.lib = NoEntry
                  /\ d.lib = BinaryEntry => d.main # NoEntry}}

(***************************************************************************)
(* main.rs: one invocation of the CLI.  'init' is run in the directory     *)
(* above the project, the other commands in the project directory.         *)
(***************************************************************************)
SeqsUpTo(S, n) == UNION {[1..k -> S] : k \in 0..n}

NoArgs ==
    [name |-> None, source |-> None, output |-> None, files |-> <<>>, entry |-> None,
     wasm_file |-> None, args |-> <<>>, key |-> None, value |-> None]

\* The handler's view of the filesystem when started in cwd ("" is the
\* directory above the project).
View(cwd) == IF cwd = "" THEN fs ELSE chdir(fs, cwd)

\* main returns the handler's result: Err is a non-zero exit code.
Invoke(op, cwd, args, o) ==
    /\ cwd # "" => IsDir(fs, cwd)
    /\ fs' = IF cwd = "" THEN o.fs ELSE unchdir(fs, cwd, o.fs)
    /\ last' = [op |-> op, cwd |-> cwd, args |-> args, pre |-> fs, status |-> o.status,
                error |-> o.error, stdout |-> o.stdout, commands |-> o.commands,
                walked |-> o.walked, writes |-> o.writes]

Init ==
    /\ fs \in InitialFs
    /\ last = [op |-> "none", cwd |-> "", args |-> NoArgs, pre |-> fs, status |-> "ok",
               error |-> "", stdout |-> <<>>, commands |-> <<>>,
               walked |-> FALSE, writes |-> {}]

MainInit ==
    \E name \in {ProjectDir} :
        Invoke("init", "", [NoArgs EXCEPT !.name = Some(name)], handle_init(View(""), name))

MainBuild ==
    LET view == View(ProjectDir) IN
    \E source \in {None, Some("src/main.xn")}, proc \in ProcOutcomes :
      \E order \in IF source = None THEN WalkOrders ELSE {CHOOSE o \in WalkOrders : TRUE} :
        LET output == "out/output.wasm"
        IN  Invoke("build", ProjectDir,
                   [NoArgs EXCEPT !.source = source, !.output = Some(output)],
                   handle_build(view, source, output, order, proc))

MainRun ==
    LET view == View(ProjectDir) IN
    \E files \in SeqsUpTo({"src/main.xn"}, MaxArgs), entry \in {None, Some("src/main.xn")},
       proc \in ProcOutcomes :
      \E order \in IF files = <<>> THEN WalkOrders ELSE {CHOOSE o \in WalkOrders : TRUE} :
        Invoke("run", ProjectDir, [NoArgs EXCEPT !.files = files, !.entry = entry],
               handle_run(view, files, entry, order, proc))

MainVm ==
    LET view == View(ProjectDir) IN
    \E args \in SeqsUpTo({"--trace"}, MaxArgs), proc \in ProcOutcomes :
        LET wasm_file == "out/output.wasm"
        IN  Invoke("vm", ProjectDir,
                   [NoArgs EXCEPT !.wasm_file = Some(wasm_file), !.args = args],
                   handle_vm(view, wasm_file, args, proc))

\* clap fills 'value' only after 'key'.
MainConfig ==
    LET view == View(ProjectDir) IN
    \E key \in {None} \cup {Some(k) : k \in {"compiler_path", "interpreter_path",
                                              "vm_path", "project_name", "editor"}},
       value \in {None, Some("/usr/bin/xcc")} :
        /\ key = None => value = None
        /\ Invoke("config", ProjectDir, [NoArgs EXCEPT !.key = key, !.value = value],
                  handle_config(view, key, value))

Next == MainInit \/ MainBuild \/ MainRun \/ MainVm \/ MainConfig

Spec == Init /\ [][Next]_vars

(***************************************************************************)
(* The properties.  Each is about the last invocation: `last` holds what   *)
(* it was given and what it did, last.pre the filesystem it started from   *)
(* and fs the one it left.                                                 *)
(***************************************************************************)
Abs(p) == Below[ProjectDir][p]
ConfigPath == Abs("xn.toml")

\* The file holds, for each of the four fields, a line giving it as a string.
Decodes(entry) ==
    /\ entry.kind = "file"
    /\ \A j \in 1..Len(ConfigKeys) :
          \E n \in 1..Len(entry.data) :
              entry.data[n].key = ConfigKeys[j] /\ entry.data[n].type = "string"

\* The configuration the last invocation started from, and the one it left.
ConfigBefore == load_config(chdir(last.pre, ProjectDir), "xn.toml").config
ConfigAfter == load_config(chdir(fs, ProjectDir), "xn.toml")

\* The .xn files below src/ in filesystem f, by the last three letters of the name.
XnFilesUnderSrc(f) ==
    {p \in RelPaths :
        /\ "src" \in Ancestors[p]
        /\ f[Abs(p)].kind = "file"
        /\ SubSeq(p, Len(p) - 2, Len(p)) = ".xn"}

\* The children that ran: the commands whose spawn did not fail.
Spawned == {n \in 1..Len(last.commands) : last.commands[n].result.kind # "spawn_error"}

\* C1: for build, run and vm, a child that was spawned and exited with a
\* non-zero status makes the operation fail; it never ends in success then.
C1_NonZeroExitFails ==
    (/\ last.op \in {"build", "run", "vm"}
     /\ \E n \in Spawned : /\ last.commands[n].result.kind = "exited"
                           /\ last.commands[n].result.code # 0)
        => last.status = "err"

\* C2: config with a key outside the four fields, on a loadable xn.toml, ends in
\* success and leaves the file as it was, with a value or without.
C2_UnknownKeyLeavesFile ==
    (/\ last.op = "config"
     /\ last.args.key # None
     /\ ~IsConfigKey(last.args.key[1])
     /\ Decodes(last.pre[ConfigPath]))
        => /\ last.status = "ok"
           /\ fs[ConfigPath] = last.pre[ConfigPath]

\* C3: run with no files on the command line and no .xn file under src/ (absent
\* or without matches), on a loadable xn.toml, ends in success and runs no
\* command, with an entry point or without.
C3_RunNothingToRun ==
    (/\ last.op = "run"
     /\ last.args.files = <<>>
     /\ XnFilesUnderSrc(last.pre) = {}
     /\ Decodes(last.pre[ConfigPath]))
        => /\ last.status = "ok"
           /\ last.commands = <<>>

C3_Witness ==
    /\ last.op = "run"
    /\ last.args.files = <<>>
    /\ last.args.entry # None
    /\ last.pre[Abs("src/notes.txt")].kind = "file"
    /\ XnFilesUnderSrc(last.pre) = {}
    /\ last.status = "ok"

\* C4: build without --source, on a loadable xn.toml, when nothing under src/ is
\* an .xn file: it fails with the empty-input error, runs no command and leaves
\* out/output.xn unwritten.
C4_BuildEmptyInput ==
    (/\ last.op = "build"
     /\ last.args.source = None
     /\ XnFilesUnderSrc(last.pre) = {}
     /\ Decodes(last.pre[ConfigPath]))
        => /\ last.status = "err"
           /\ last.error = "No .xn files found in 'src/' for build."
           /\ last.commands = <<>>
           /\ MergedPath \notin last.writes
           /\ fs[Abs(MergedPath)] = last.pre[Abs(MergedPath)]

C4_Witness ==
    /\ last.op = "build"
    /\ last.args.source = None
    /\ last.pre[Abs("src/notes.txt")].kind = "file"
    /\ XnFilesUnderSrc(last.pre) = {}
    /\ last.pre[Abs(MergedPath)].kind = "file"
    /\ last.status = "err"
    /\ last.walked

\* C5: build with --source walks no directory, writes no merged file, and
\* gives the compiler exactly the given path as its input, whatever src/ holds.
C5_BuildExplicitSource ==
    (last.op = "build" /\ last.args.source # None)
        => /\ ~last.walked
           /\ MergedPath \notin last.writes
           /\ fs[Abs(MergedPath)] = last.pre[Abs(MergedPath)]
           /\ Decodes(last.pre[ConfigPath]) => Len(last.commands) = 1
           /\ \A n \in 1..Len(last.commands) :
                 /\ last.commands[n].program = ConfigBefore.compiler_path
                 /\ last.commands[n].args
                        = <<last.args.source[1], "-o", last.args.output[1]>>

C5_Witness ==
    /\ last.op = "build"
    /\ last.args.source # None
    /\ last.pre[Abs("src")].kind = "none"
    /\ Spawned # {}
    /\ last.status = "ok"

\* C6: on an xn.toml that is absent or does not give all four fields, build, run,
\* vm and config fail at once: no command run, nothing written, nothing printed,
\* the filesystem as it was; and no operation but init creates xn.toml.
C6_ConfigRequired ==
    /\ (last.op \in {"build", "run", "vm", "config"} /\ ~Decodes(last.pre[ConfigPath]))
          => /\ last.status = "err"
             /\ last.commands = <<>>
             /\ last.writes = {}
             /\ last.stdout = <<>>
             /\ fs = last.pre
    /\ (last.op # "init" /\ last.pre[ConfigPath].kind = "none")
          => fs[ConfigPath].kind = "none"

C6_Witness ==
    /\ last.op = "build"
    /\ last.args.source # None
    /\ last.pre[ConfigPath] = FileEntry(MissingField)
    /\ last.status = "err"

\* C7: after config(k, v) succeeds for one of the four keys, the configuration
\* loaded from xn.toml is the one loaded before with field k replaced by v, and
\* config(k) then prints 'k = v'.
C7_ConfigSetThenGet ==
    (/\ last.op = "config"
     /\ last.args.key # None
     /\ last.args.value # None
     /\ IsConfigKey(last.args.key[1])
     /\ last.status = "ok")
        => LET k == last.args.key[1]
               v == last.args.value[1]
           IN  /\ ConfigAfter.ok
               /\ ConfigAfter.config = [ConfigBefore EXCEPT ![k] = v]
               /\ handle_config(chdir(fs, ProjectDir), Some(k), None).stdout
                      = <<k \o " = " \o v>>

C7_Witness ==
    /\ last.op = "config"
    /\ last.args.key = Some("vm_path")
    /\ last.args.value # None
    /\ last.pre[ConfigPath] = FileEntry(HandWritten)
    /\ last.status = "ok"

\* The merged text of the files s (a sequence of paths) as they are in f: for
\* each, the marker line naming it, its content, and the trailer.
RECURSIVE Sections(_, _, _)
Sections(f, s, trailer) ==
    IF s = <<>> THEN ""
    ELSE "// Start of file: " \o Head(s) \o "\n" \o f[Abs(Head(s))].data \o trailer
             \o Sections(f, Tail(s), trailer)

Orderings(S) ==
    {s \in [1..Cardinality(S) -> S] : \A i, j \in 1..Cardinality(S) : s[i] = s[j] => i = j}

\* build, without --source, wrote the merged file.
Merged == last.op = "build" /\ last.args.source = None /\ MergedPath \in last.writes

\* C8, as claimed: the merged file is the sections in file-set order, each the
\* marker line and the file's content, with nothing between or after them.
C8_MergedSectionsOnly ==
    Merged => \E s \in Orderings(XnFilesUnderSrc(last.pre)) :
                  fs[Abs(MergedPath)] = FileEntry(Sections(last.pre, s, ""))

\* C8, amended: the merged file is the sections in file-set order, each the
\* marker line, the file's content and one newline after it; it is written
\* whenever src/ holds .xn files, all readable; and the compiler is given the
\* merged file's path as its input.
C8_MergedSectionsNewline ==
    /\ Merged
          => /\ \E s \in Orderings(XnFilesUnderSrc(last.pre)) :
                    fs[Abs(MergedPath)] = FileEntry(Sections(last.pre, s, "\n"))
             /\ Len(last.commands) = 1
             /\ last.commands[1].args[1] = MergedPath
    /\ (/\ last.op = "build"
        /\ last.args.source = None
        /\ Decodes(last.pre[ConfigPath])
        /\ XnFilesUnderSrc(last.pre) # {}
        /\ \A p \in XnFilesUnderSrc(last.pre) : last.pre[Abs(p)].utf8)
          => Merged

C8_Witness ==
    /\ Merged
    /\ Cardinality(XnFilesUnderSrc(last.pre)) = 2
    /\ last.status = "ok"

\* C9: after init(name) succeeds, name/xn.toml gives project_name = name and
\* the tools as xcc, xin and xrun, and name/src holds the sample main.xn: the one
\* file init puts there, and the only file there when src/ is new.
C9_InitScaffold ==
    (last.op = "init" /\ last.status = "ok")
        => LET name == last.args.name[1]
               loaded == load_config(fs, name \o "/xn.toml")
               under_src == {q \in FsPaths : name \o "/src" \in Ancestors[q]}
           IN  /\ loaded.ok
               /\ loaded.config = XnConfig("xcc", "xin", "xrun", name)
               /\ fs[name \o "/src"].kind = "dir"
               /\ fs[name \o "/src/main.xn"] = FileEntry(gcd_code)
               /\ last.writes \cap under_src = {name \o "/src/main.xn"}
               /\ \A q \in under_src \ {name \o "/src/main.xn"} : fs[q] = last.pre[q]
               /\ last.pre[name \o "/src"].kind = "none"
                     => {q \in under_src : fs[q].kind = "file"} = {name \o "/src/main.xn"}

C9_Witness ==
    /\ last.op = "init"
    /\ last.status = "ok"
    /\ last.pre[ProjectDir].kind = "none"
    /\ fs[ConfigPath].kind = "file"

\* C10: config with only a key, config with no argument, and build, run and vm
\* do not write xn.toml: the file is after the operation what it was before.
C10_ConfigWrittenOnlyBySet ==
    (\/ last.op \in {"build", "run", "vm"}
     \/ last.op = "config" /\ last.args.value = None)
        => /\ "xn.toml" \notin last.writes
           /\ fs[ConfigPath] = last.pre[ConfigPath]

C10_Witness ==
    /\ last.op = "config"
    /\ last.args.key = Some("vm_path")
    /\ last.args.value = None
    /\ last.pre[ConfigPath] = FileEntry(HandWritten)
    /\ last.stdout = <<"vm_path = xrun">>

====
